---- MODULE Spec2Model ----
(***************************************************************************)
(* Model of the orcid-data-toolkit conversion pipeline (src/src/lib.rs):   *)
(* the record normalizer record_to_json / record_to_row and the batching   *)
(* producer / parallel transform / output sink of convert_tgz.             *)
(*                                                                         *)
(* Text values that the code inspects (names, organization names and       *)
(* organization identifiers) are sequences of one-character strings, so    *)
(* that trim, rsplit_once, format! and nfc are computed and not assumed.   *)
(* Values that are only cloned and compared (the orcid path, the           *)
(* disambiguation source) are plain strings.                               *)
(***************************************************************************)
EXTENDS Integers, Sequences, FiniteSets, TLC

VARIABLES
    \* ---- record_to_json applied to one record (specification SpecNorm)
    n_record,      \* the Record handed to record_to_json
    n_org_map,     \* the OrgMap handed to record_to_json
    n_result,      \* Result<NameJson> it returned
    n_pc,          \* "idle" | "input" | "done"
    \* ---- one run of convert_tgz (specification Spec)
    archive,       \* the tar entries of the input file, in archive order
    batch_size,    \* BATCH_SIZE of the build
    format,        \* ConvertFormat
    filter_name,   \* Option<String>: the name filter pattern argument
    org_map,       \* OrgMap returned by read_org_ids
    p_pc,          \* producer thread: "unspawned" | "open" | "loop" | "send" | "rest" | "done" | "panicked"
    p_next,        \* index of the next archive entry the producer iterates
    batch,         \* the producer's local batch
    chan,          \* the bounded channel: batches sent and not yet received
    rx_alive,      \* the receiver (rx) has not been dropped
    m_pc,          \* main thread: "start" | "recv" | "write" | "join" | "ok" | "err" | "panic"
    results,       \* results of the current batch not yet written
    now,           \* the run timestamp of the tabular sink (0 before it is taken)
    out,           \* what has been written to out_stream, in write order
    out_batch,     \* for each written item, the ordinal of the batch it came from
    flushed,       \* how many items of out have reached the output destination
    pushed,        \* every batch the producer sent, in send order
    received,      \* every batch the main thread received, in receive order
    \* ---- one run of extract_tgz (specification SpecExtract; it shares
    \* archive and out with convert_tgz)
    e_pc,          \* "idle" | "start" | "next" | "ids" | "ok" | "err" | "panic"
    e_next,        \* index of the next archive entry iter_records looks at
    identifiers,   \* the HashSet of identifiers of the records done with
    org_ids,       \* what `for i in &org_ids` has still to visit, in its order
    \* ---- one run of convert_xml (specification SpecXml; its input file
    \* holds the document of the archive's only entry)
    x_pc,          \* "idle" | "start" | "ok" | "err" | "panic"
    x_cause,       \* which step of convert_xml ended it
    x_out          \* what convert_xml wrote to its out_stream

norm_vars == <<n_record, n_org_map, n_result, n_pc>>
pipe_vars == <<archive, batch_size, format, filter_name, org_map, p_pc, p_next,
               batch, chan, rx_alive, m_pc, results, now, out, out_batch, flushed, pushed,
               received>>
extract_vars == <<e_pc, e_next, identifiers, org_ids>>
xml_vars == <<x_pc, x_cause, x_out>>
vars == <<n_record, n_org_map, n_result, n_pc,
          archive, batch_size, format, filter_name, org_map, p_pc, p_next,
          batch, chan, rx_alive, m_pc, results, now, out, out_batch, flushed, pushed,
          received, e_pc, e_next, identifiers, org_ids, x_pc, x_cause, x_out>>

----------------------------------------------------------------------------
\* Option<T> and Result<T>

None == <<>>
Some(v) == <<v>>
is_some(o) == Len(o) = 1
is_none(o) == Len(o) = 0
unwrap(o) == o[1]

Ok(v) == [ok |-> TRUE, val |-> <<v>>]
Err == [ok |-> FALSE, val |-> <<>>]
is_ok(r) == r.ok
ok_val(r) == r.val[1]

----------------------------------------------------------------------------
\* Text helpers

\* char::is_whitespace over the model's alphabet
is_whitespace(c) == c = " "

RECURSIVE trim_start(_)
trim_start(s) ==
    IF s = <<>> THEN <<>>
    ELSE IF is_whitespace(Head(s)) THEN trim_start(Tail(s)) ELSE s

RECURSIVE trim_end(_)
trim_end(s) ==
    IF s = <<>> THEN <<>>
    ELSE IF is_whitespace(s[Len(s)]) THEN trim_end(SubSeq(s, 1, Len(s) - 1)) ELSE s

\* str::trim
trim(s) == trim_end(trim_start(s))

\* str::is_empty
is_empty(s) == Len(s) = 0

\* str::rsplit_once(delim): Some((before, after)) around the LAST delim, None
\* when the text holds no delim
rsplit_once(s, delim) ==
    LET at == {i \in 1..Len(s) : s[i] = delim}
    IN  IF at = {} THEN None
        ELSE LET i == CHOOSE k \in at : \A j \in at : j <= k
             IN  Some(<<SubSeq(s, 1, i - 1), SubSeq(s, i + 1, Len(s))>>)

\* UnicodeNormalization::nfc over the model's alphabet: "e" followed by the
\* combining mark "^" composes to the precomposed character "E"; every other
\* character is already in composed form.
RECURSIVE nfc(_)
nfc(s) ==
    IF s = <<>> THEN <<>>
    ELSE IF Len(s) >= 2 /\ s[1] = "e" /\ s[2] = "^"
         THEN <<"E">> \o nfc(SubSeq(s, 3, Len(s)))
         ELSE <<s[1]>> \o nfc(Tail(s))

\* format!("{}, {}", a, b)
format_name(a, b) == a \o <<",", " ">> \o b

----------------------------------------------------------------------------
\* Record normalizer

\* ExtractedIdentifier { scheme, identifier }
ExtractedIdentifier(scheme, identifier) ==
    [scheme |-> scheme, identifier |-> identifier]

\* HashMap::get(..).cloned() on an OrgMap (a function on its keys)
org_map_get(m, key) == IF key \in DOMAIN m THEN Some(m[key]) ELSE None

\* str::split_once: around the FIRST delim
split_once(s, delim) ==
    LET at == {i \in 1..Len(s) : s[i] = delim}
    IN  IF at = {} THEN None
        ELSE LET i == CHOOSE k \in at : \A j \in at : k <= j
             IN  Some(<<SubSeq(s, 1, i - 1), SubSeq(s, i + 1, Len(s))>>)

\* ror_id_of with the ROR identifier cut at its first '/' instead of its last
ror_id_of_first_slash(oid, m) ==
    IF is_none(oid) THEN None
    ELSE LET identifier == unwrap(oid)
         IN  IF identifier.source = "ROR"
             THEN LET sp == split_once(identifier.identifier, "/")
                  IN  IF is_some(sp) THEN Some(unwrap(sp)[2]) ELSE None
             ELSE LET normalized_id ==
                          IF identifier.source = "FUNDREF"
                          THEN LET sp == rsplit_once(identifier.identifier, "/")
                               IN  IF is_some(sp) THEN Some(unwrap(sp)[2]) ELSE None
                          ELSE Some(identifier.identifier)
                  IN  IF is_none(normalized_id) THEN None
                      ELSE org_map_get(m, ExtractedIdentifier(identifier.source,
                                                             unwrap(normalized_id)))

\* ror_id_of that looks a FUNDREF identifier up without cutting it at its
\* last '/'
ror_id_of_fundref_raw(oid, m) ==
    IF is_none(oid) THEN None
    ELSE LET identifier == unwrap(oid)
         IN  IF identifier.source = "ROR"
             THEN LET sp == rsplit_once(identifier.identifier, "/")
                  IN  IF is_some(sp) THEN Some(unwrap(sp)[2]) ELSE None
             ELSE org_map_get(m, ExtractedIdentifier(identifier.source,
                                                    identifier.identifier))

\* the ror_id computed for an organization's Option<OrgIdentifier>
ror_id_of(oid, m) ==
    IF is_none(oid) THEN None
    ELSE LET identifier == unwrap(oid)
         IN  IF identifier.source = "ROR"
             THEN LET sp == rsplit_once(identifier.identifier, "/")
                  IN  IF is_some(sp) THEN Some(unwrap(sp)[2]) ELSE None
             ELSE LET normalized_id ==
                          IF identifier.source = "FUNDREF"
                          THEN LET sp == rsplit_once(identifier.identifier, "/")
                               IN  IF is_some(sp) THEN Some(unwrap(sp)[2]) ELSE None
                          ELSE Some(identifier.identifier)
                  IN  IF is_none(normalized_id) THEN None
                      ELSE org_map_get(m, ExtractedIdentifier(identifier.source,
                                                             unwrap(normalized_id)))

\* the NameAffiliation built for one active employment
name_affiliation(a, m) ==
    [id |-> ror_id_of(a.employment.organization.identifier, m),
     name |-> nfc(a.employment.organization.name)]

\* filter_employment that forgets to drop past employments
filter_employment_keep_past(a, m) == Some(name_affiliation(a, m))

\* the filter_map closure: past employments (end date present) give nothing
filter_employment(a, m) ==
    IF is_some(a.employment.end) THEN None ELSE Some(name_affiliation(a, m))

\* .iter().filter_map(..).for_each(push): the affiliations in input order
RECURSIVE collect_affiliations(_, _)
collect_affiliations(emps, m) ==
    IF emps = <<>> THEN <<>>
    ELSE filter_employment(Head(emps), m) \o collect_affiliations(Tail(emps), m)

\* first retain: HashSet::insert(id) is true only for an id not seen before;
\* affiliations without id are kept
RECURSIVE retain_by_id(_, _)
retain_by_id(affs, seen_ids) ==
    IF affs = <<>> THEN <<>>
    ELSE LET a == Head(affs)
         IN  IF is_some(a.id)
             THEN IF unwrap(a.id) \in seen_ids
                  THEN retain_by_id(Tail(affs), seen_ids)
                  ELSE <<a>> \o retain_by_id(Tail(affs), seen_ids \cup {unwrap(a.id)})
             ELSE <<a>> \o retain_by_id(Tail(affs), seen_ids)

\* retain_by_name that also drops identified affiliations by name
RECURSIVE retain_by_name_all(_, _)
retain_by_name_all(affs, seen_names) ==
    IF affs = <<>> THEN <<>>
    ELSE LET a == Head(affs)
         IN  IF a.name \in seen_names
             THEN retain_by_name_all(Tail(affs), seen_names)
             ELSE <<a>> \o retain_by_name_all(Tail(affs), seen_names \cup {a.name})

\* second retain: affiliations with id are kept; without id, the name must
\* not have been seen before
RECURSIVE retain_by_name(_, _)
retain_by_name(affs, seen_names) ==
    IF affs = <<>> THEN <<>>
    ELSE LET a == Head(affs)
         IN  IF is_some(a.id)
             THEN <<a>> \o retain_by_name(Tail(affs), seen_names)
             ELSE IF a.name \in seen_names
                  THEN retain_by_name(Tail(affs), seen_names)
                  ELSE <<a>> \o retain_by_name(Tail(affs), seen_names \cup {a.name})

\* the affiliations vector after both retain passes
affiliations_of(record, m) ==
    LET employments == record.activities.employments.employment
        collected == IF is_some(employments)
                     THEN collect_affiliations(unwrap(employments), m)
                     ELSE <<>>
    IN  retain_by_name(retain_by_id(collected, {}), {})

\* derive_name with given and family name swapped in the both-present arm
derive_name_swapped(person_name) ==
    LET g == person_name.given_names
        f == person_name.family_name
    IN  IF is_some(g) /\ is_none(f) /\ ~is_empty(trim(unwrap(g)))
        THEN Ok(<<<<>>, unwrap(g), unwrap(g)>>)
        ELSE IF is_none(g) /\ is_some(f) /\ ~is_empty(trim(unwrap(f)))
        THEN Ok(<<<<>>, unwrap(f), unwrap(f)>>)
        ELSE IF is_some(g) /\ is_some(f)
                /\ ~is_empty(trim(unwrap(g))) /\ ~is_empty(trim(unwrap(f)))
        THEN Ok(<<unwrap(f), unwrap(g), format_name(unwrap(g), unwrap(f))>>)
        ELSE Err

\* the match on record.person.name: Ok((given_name, family_name, name)) or Err
derive_name(person_name) ==
    LET g == person_name.given_names
        f == person_name.family_name
    IN  IF is_some(g) /\ is_none(f) /\ ~is_empty(trim(unwrap(g)))
        THEN Ok(<<<<>>, unwrap(g), unwrap(g)>>)
        ELSE IF is_none(g) /\ is_some(f) /\ ~is_empty(trim(unwrap(f)))
        THEN Ok(<<<<>>, unwrap(f), unwrap(f)>>)
        ELSE IF is_some(g) /\ is_some(f)
                /\ ~is_empty(trim(unwrap(g))) /\ ~is_empty(trim(unwrap(f)))
        THEN Ok(<<unwrap(g), unwrap(f), format_name(unwrap(f), unwrap(g))>>)
        ELSE Err

\* record_to_json: Result<NameJson>
record_to_json(record, m) ==
    LET affiliations == affiliations_of(record, m)
        names == derive_name(record.person.name)
    IN  IF ~is_ok(names) THEN Err
        ELSE Ok([given_name |-> nfc(ok_val(names)[1]),
                 family_name |-> nfc(ok_val(names)[2]),
                 name |-> nfc(ok_val(names)[3]),
                 identifiers |-> <<[scheme |-> "orcid",
                                    identifier |-> record.identifier.path]>>,
                 affiliations |-> IF affiliations # <<>> THEN Some(affiliations)
                                  ELSE None])

----------------------------------------------------------------------------
\* Serialization, the name filter and the tabular row

\* serde_json serialization of a NameAffiliation: "id" is skipped when None
serialize_affiliation(a) ==
    (IF is_some(a.id) THEN <<<<"id", unwrap(a.id)>>>> ELSE <<>>)
    \o <<<<"name", a.name>>>>

\* serde_json::to_vec / to_string of a NameJson: the tagged object, its fields
\* in declaration order, "affiliations" skipped when None
serialize_name_json(nj) ==
    <<<<"$schema", "local://names/name-v1.0.0.json">>,
      <<"given_name", nj.given_name>>,
      <<"family_name", nj.family_name>>,
      <<"name", nj.name>>,
      <<"identifiers", [i \in 1..Len(nj.identifiers) |->
                           <<<<"scheme", nj.identifiers[i].scheme>>,
                             <<"identifier", nj.identifiers[i].identifier>>>>]>>>>
    \o (IF is_some(nj.affiliations)
        THEN <<<<"affiliations",
                 [i \in 1..Len(unwrap(nj.affiliations)) |->
                     serialize_affiliation(unwrap(nj.affiliations)[i])]>>>>
        ELSE <<>>)

\* a pattern text is a literal to find, or a text that is no valid regex
Pattern(compiles, literal) == [compiles |-> compiles, literal |-> literal]

\* regex_new_ok that makes a filter of a pattern that does not compile
regex_new_lenient(pattern) == Some(pattern)

\* Regex::new(..).ok()
regex_new_ok(pattern) == IF pattern.compiles THEN Some(pattern) ELSE None

\* Regex::is_match: the literal occurs somewhere in the text
is_match(re, text) ==
    \E i \in 1..(Len(text) - Len(re.literal) + 1) :
        SubSeq(text, i, i + Len(re.literal) - 1) = re.literal

\* let name_filter_re = match filter_name { Some(re) => Regex::new(re).ok(), _ => None }
name_filter_re_of(fname) ==
    IF is_some(fname) THEN regex_new_ok(unwrap(fname)) ELSE None

\* record_to_row that stamps `updated` later than `created`
record_to_row_restamped(record, m, created_dt, name_filter, uuid) ==
    LET name_json == record_to_json(record, m)
    IN  IF ~is_ok(name_json) THEN Err
        ELSE IF is_some(name_filter)
                /\ ~is_match(unwrap(name_filter), ok_val(name_json).name)
        THEN Err
        ELSE Ok([created |-> created_dt,
                 updated |-> created_dt + 1,
                 id |-> uuid,
                 pid |-> record.identifier.path,
                 version_id |-> 1,
                 json |-> serialize_name_json(ok_val(name_json))])

\* record_to_row that does not look at the name filter
record_to_row_unfiltered(record, m, created_dt, name_filter, uuid) ==
    LET name_json == record_to_json(record, m)
    IN  IF ~is_ok(name_json) THEN Err
        ELSE Ok([created |-> created_dt,
                 updated |-> created_dt,
                 id |-> uuid,
                 pid |-> record.identifier.path,
                 version_id |-> 1,
                 json |-> serialize_name_json(ok_val(name_json))])

\* record_to_row; uuid stands for the value Uuid::new_v4() returns
record_to_row(record, m, created_dt, name_filter, uuid) ==
    LET name_json == record_to_json(record, m)
    IN  IF ~is_ok(name_json) THEN Err
        ELSE IF is_some(name_filter)
                /\ ~is_match(unwrap(name_filter), ok_val(name_json).name)
        THEN Err
        ELSE Ok([created |-> created_dt,
                 updated |-> created_dt,
                 id |-> uuid,
                 pid |-> record.identifier.path,
                 version_id |-> 1,
                 json |-> serialize_name_json(ok_val(name_json))])

\* a document is text that deserializes to a Record or fails to
Doc(valid, record) == [valid |-> valid, record |-> record]

\* parse_xml: Some(record), or None after logging the error path
parse_xml(xml) == IF xml.valid THEN Some(xml.record) ELSE None

\* the JSON arm's filter_map chain on one document: Some(bytes) or None
json_item(xml, m, name_filter) ==
    LET parsed == parse_xml(xml)
    IN  IF is_none(parsed) THEN None
        ELSE LET json == record_to_json(unwrap(parsed), m)
             IN  IF ~is_ok(json) THEN None
                 ELSE IF is_some(name_filter)
                         /\ ~is_match(unwrap(name_filter), ok_val(json).name)
                 THEN None
                 ELSE Some(serialize_name_json(ok_val(json)))

\* the tabular arm's filter_map chain on one document: Some(row) or None
row_item(xml, m, created_dt, name_filter, uuid) ==
    LET parsed == parse_xml(xml)
    IN  IF is_none(parsed) THEN None
        ELSE LET row == record_to_row(unwrap(parsed), m, created_dt, name_filter, uuid)
             IN  IF is_ok(row) THEN Some(ok_val(row)) ELSE None

\* batch.par_iter().filter_map(..).filter_map(..).collect(): the surviving
\* items in batch order (collect keeps the order of the slice); n numbers the
\* batch, so that <<n, i>> is a fresh uuid for its i-th document
RECURSIVE transform_from(_, _, _, _, _, _, _)
transform_from(b, i, fmt, m, created_dt, name_filter, n) ==
    IF i > Len(b) THEN <<>>
    ELSE (IF fmt = "JSON"
          THEN json_item(b[i], m, name_filter)
          ELSE row_item(b[i], m, created_dt, name_filter, <<n, i>>))
         \o transform_from(b, i + 1, fmt, m, created_dt, name_filter, n)

\* transform that gives up on a batch at its first undecodable document
transform_stop_at_bad(b, fmt, m, created_dt, name_filter, n) ==
    LET bad == {i \in 1..Len(b) : is_none(parse_xml(b[i]))}
        upto == IF bad = {} THEN Len(b)
                ELSE (CHOOSE i \in bad : \A j \in bad : i <= j) - 1
    IN  transform_from(SubSeq(b, 1, upto), 1, fmt, m, created_dt, name_filter, n)

transform(b, fmt, m, created_dt, name_filter, n) ==
    transform_from(b, 1, fmt, m, created_dt, name_filter, n)

----------------------------------------------------------------------------
\* Decoded input: the Record structure and the inputs the model draws from

PersonName(g, f) == [given_names |-> g, family_name |-> f]

OrgIdentifier(source, identifier) == [identifier |-> identifier, source |-> source]

Organization(name, oid) == [name |-> name, identifier |-> oid]

\* AffiliationGroup { employment: Employment { end, organization } }
AffiliationGroup(end, org) == [employment |-> [end |-> end, organization |-> org]]

Record(path, g, f, emps) ==
    [identifier |-> [path |-> path],
     person |-> [name |-> PersonName(g, f)],
     activities |-> [employments |-> [employment |-> emps]]]

MaxEmployments == 2

\* name texts: empty, whitespace only, plain, not in composed form, padded
NameTexts == {<<>>, <<" ">>, <<"a">>, <<"e", "^">>, <<" ", "b">>}
OptNames == {None} \cup {Some(t) : t \in NameTexts}

\* organization display names: "e^" and "E" are the same name after nfc
OrgNames == {<<"u">>, <<"e", "^">>, <<"E">>}

\* identifier values: with and without a '/'
IdentifierTexts == {<<"x", "/", "r">>, <<"r">>}
Sources == {"ROR", "FUNDREF", "GRID"}
OptOrgIdentifiers ==
    {None} \cup {Some(OrgIdentifier(s, i)) : s \in Sources, i \in IdentifierTexts}

\* Option<()>: the end-date marker
OptEnds == {None, Some("end")}

AffiliationGroups ==
    {AffiliationGroup(e, Organization(n, oid)) :
        e \in OptEnds, n \in OrgNames, oid \in OptOrgIdentifiers}

SeqsUpTo(S, n) == UNION {[1..k -> S] : k \in 0..n}

\* the OrgMaps of the model: empty; one where FUNDREF and GRID resolve; one
\* that also holds keys the code must never look up (a ROR key, and a FUNDREF
\* key that still carries its path prefix)
EmptyOrgMap == [k \in {} |-> <<>>]
OrgMapA ==
    LET keys == {ExtractedIdentifier("FUNDREF", <<"r">>),
                 ExtractedIdentifier("GRID", <<"x", "/", "r">>)}
    IN  [k \in keys |-> IF k.scheme = "FUNDREF" THEN <<"r">> ELSE <<"m">>]
OrgMapB ==
    LET keys == {ExtractedIdentifier("FUNDREF", <<"r">>),
                 ExtractedIdentifier("GRID", <<"r">>),
                 ExtractedIdentifier("ROR", <<"r">>),
                 ExtractedIdentifier("ROR", <<"x", "/", "r">>),
                 ExtractedIdentifier("FUNDREF", <<"x", "/", "r">>)}
    IN  [k \in keys |-> IF k.scheme = "ROR" THEN <<"z">>
                        ELSE IF k.scheme = "GRID" THEN <<"r">>
                        ELSE IF k.identifier = <<"r">> THEN <<"m">> ELSE <<"z">>]
OrgMaps == {EmptyOrgMap, OrgMapA, OrgMapB}

\* the organization mapping file: a path that opens or not, and its rows
\* (scheme, identifier, ror_id); a row that does not deserialize makes
\* read_org_ids panic before anything else runs and is not part of the model
MappingFile(opens, rows) == [opens |-> opens, rows |-> rows]
MappingRow(scheme, identifier, ror_id) ==
    [scheme |-> scheme, identifier |-> identifier, ror_id |-> ror_id]

\* HashMap::insert: a later row replaces an earlier one with the same key
org_map_insert(m, key, val) ==
    [k \in DOMAIN m \cup {key} |-> IF k = key THEN val ELSE m[k]]

RECURSIVE read_rows(_, _)
read_rows(rows, m) ==
    IF rows = <<>> THEN m
    ELSE read_rows(Tail(rows),
                   org_map_insert(m, ExtractedIdentifier(Head(rows).scheme,
                                                         Head(rows).identifier),
                                  Head(rows).ror_id))

\* read_org_ids: no path, or a path that cannot be opened, gives an empty map
read_org_ids(orgs_mappings_file) ==
    IF is_some(orgs_mappings_file) /\ unwrap(orgs_mappings_file).opens
    THEN read_rows(unwrap(orgs_mappings_file).rows, EmptyOrgMap)
    ELSE EmptyOrgMap

\* the FUNDREF scenario: the funder DOI, its trailing segment, the identifier
\* an employment carries and the canonical id the file maps it to
FundrefDoi == <<"1", "0", ".", "1", "3", "0", "3", "9", "/",
                "5", "0", "1", "1", "0", "0", "0", "0", "1", "6", "6", "5">>
FundrefNumber == <<"5", "0", "1", "1", "0", "0", "0", "0", "1", "6", "6", "5">>
FundrefUrl == <<"h", "t", "t", "p", ":", "/", "/", "d", "x", ".", "d", "o", "i", ".",
                "o", "r", "g", "/", "1", "0", ".", "1", "3", "0", "3", "9", "/",
                "5", "0", "1", "1", "0", "0", "0", "0", "1", "6", "6", "5">>
FundrefRorId == <<"0", "1", "2", "3", "4", "a", "b", "c">>

\* a mapping file whose row carries the DOI, one whose row carries the
\* trailing segment, the latter unopenable, and no file at all
FundrefFileDoi ==
    Some(MappingFile(TRUE, <<MappingRow("FUNDREF", FundrefDoi, FundrefRorId)>>))
FundrefFileNumber ==
    Some(MappingFile(TRUE, <<MappingRow("FUNDREF", FundrefNumber, <<"z">>),
                             MappingRow("FUNDREF", FundrefNumber, FundrefRorId)>>))
FundrefFileMissing ==
    Some(MappingFile(FALSE, <<MappingRow("FUNDREF", FundrefNumber, FundrefRorId)>>))
MappingFiles == {None, FundrefFileDoi, FundrefFileNumber, FundrefFileMissing}

\* records with one active employment whose FUNDREF identifier ends in the
\* funder number: as a URL and as the DOI
FundrefRecords ==
    {Record("p3", Some(<<"a">>), Some(<<"b">>),
            Some(<<AffiliationGroup(None,
                     Organization(<<"u">>, Some(OrgIdentifier("FUNDREF", i))))>>)) :
        i \in {FundrefUrl, FundrefDoi}}

\* the record of tests/data/alex.xml as the integration test expects it
AlexPath == "0000-0002-5082-6404"
AlexRorUrl == <<"h", "t", "t", "p", "s", ":", "/", "/", "r", "o", "r", ".", "o", "r", "g",
                "/", "0", "1", "g", "g", "x", "4", "1", "5", "7">>
AlexOrgName == <<"C", "E", "R", "N">>
AlexRecord ==
    Record(AlexPath, Some(<<"A", "l", "e", "x">>),
           Some(<<"I", "o", "a", "n", "n", "i", "d", "i", "s">>),
           Some(<<AffiliationGroup(None,
                    Organization(AlexOrgName, Some(OrgIdentifier("ROR", AlexRorUrl))))>>))

\* records that vary the person name over a fixed employment list
NameRecords ==
    {Record("p1", g, f, emps) :
        g \in OptNames, f \in OptNames,
        emps \in {None, Some(<<AffiliationGroup(None, Organization(<<"u">>, None))>>)}}

\* records that vary the employment list under a fixed person name
AffilRecords ==
    {Record("p2", Some(<<"a">>), Some(<<"b">>), emps) :
        emps \in {None} \cup {Some(s) : s \in SeqsUpTo(AffiliationGroups, MaxEmployments)}}

NormRecords == NameRecords \cup AffilRecords \cup {AlexRecord}

----------------------------------------------------------------------------
\* record_to_json applied to one record

\* extract_tgz and convert_xml are not running
ExtractIdle == e_pc = "idle" /\ e_next = 1 /\ identifiers = {} /\ org_ids = <<>>
XmlIdle == x_pc = "idle" /\ x_cause = "" /\ x_out = <<>>

PipeIdle ==
    /\ archive = <<>> /\ batch_size = 1 /\ format = "JSON" /\ filter_name = None
    /\ org_map = EmptyOrgMap /\ p_pc = "unspawned" /\ p_next = 1 /\ batch = <<>>
    /\ chan = <<>> /\ rx_alive = TRUE /\ m_pc = "idle" /\ results = <<>>
    /\ now = 0 /\ out = <<>> /\ out_batch = <<>> /\ pushed = <<>> /\ received = <<>>
    /\ flushed = 0

InitNorm ==
    /\ n_pc = "input"
    /\ \/ /\ n_record \in NormRecords
          /\ n_org_map \in OrgMaps
       \/ /\ n_record \in FundrefRecords
          /\ n_org_map \in {read_org_ids(f) : f \in MappingFiles}
    /\ n_result = Err
    /\ PipeIdle
    /\ ExtractIdle /\ XmlIdle

Normalize ==
    /\ n_pc = "input"
    /\ n_result' = record_to_json(n_record, n_org_map)
    /\ n_pc' = "done"
    /\ UNCHANGED <<n_record, n_org_map>>
    /\ UNCHANGED pipe_vars
    /\ UNCHANGED extract_vars /\ UNCHANGED xml_vars

NextNorm == Normalize

SpecNorm == InitNorm /\ [][NextNorm]_vars

----------------------------------------------------------------------------
\* One run of convert_tgz: producer thread, bounded channel, main thread

MaxEntries == 3
MaxBatchSize == 2
\* capacity of the channel, bounded::<Vec<String>>(8) scaled to the model
QueueCapacity == 2

\* a tar entry: xml = the path has the extension "xml", readable = the entry,
\* its path and its content (read_to_string) can all be read, doc = its content
Entry(xml, readable, doc) == [xml |-> xml, readable |-> readable, doc |-> doc]

DocBad == Doc(FALSE, Record("", None, None, None))
DocA ==
    Doc(TRUE, Record("p-a", Some(<<"a">>), Some(<<"b">>),
                     Some(<<AffiliationGroup(None,
                              Organization(<<"u">>,
                                  Some(OrgIdentifier("ROR", <<"x", "/", "r">>))))>>)))
DocC == Doc(TRUE, Record("p-c", None, Some(<<"c">>), None))
DocHalf == Doc(TRUE, Record("p-h", Some(<<"a">>), Some(<<" ">>), None))
SampleDocs == {DocBad, DocA, DocC, DocHalf}

SampleEntries ==
    {Entry(FALSE, TRUE, DocA), Entry(TRUE, FALSE, DocA)}
    \cup {Entry(TRUE, TRUE, d) : d \in SampleDocs}

Formats == {"JSON", "InvenioRDMNames"}

\* no filter, a pattern that compiles, a pattern that does not
FilterNames == {None, Some(Pattern(TRUE, <<"b">>)), Some(Pattern(FALSE, <<"b">>))}

\* values Utc::now().to_rfc3339() can return
Times == {1, 2}

Init ==
    /\ n_pc = "idle" /\ n_record = AlexRecord /\ n_org_map = EmptyOrgMap /\ n_result = Err
    /\ archive \in SeqsUpTo(SampleEntries, MaxEntries)
    /\ batch_size \in 1..MaxBatchSize
    /\ format \in Formats
    /\ filter_name \in FilterNames
    /\ org_map = OrgMapA
    /\ p_pc = "unspawned" /\ p_next = 1 /\ batch = <<>>
    /\ chan = <<>> /\ rx_alive = TRUE
    /\ m_pc = "start" /\ results = <<>> /\ now = 0
    /\ out = <<>> /\ out_batch = <<>> /\ pushed = <<>> /\ received = <<>>
    /\ flushed = 0
    /\ ExtractIdle /\ XmlIdle

config_vars == <<archive, batch_size, format, filter_name, org_map>>

\* File::create(output_file) fails: convert_tgz returns Err before spawning
MainOpenOutputFails ==
    /\ m_pc = "start"
    /\ m_pc' = "err"
    /\ UNCHANGED <<p_pc, p_next, batch, chan, rx_alive, results, now, out, out_batch, flushed,
                   pushed, received>>
    /\ UNCHANGED config_vars /\ UNCHANGED norm_vars
    /\ UNCHANGED extract_vars /\ UNCHANGED xml_vars

\* the output is open: the channel is made, the producer spawned and, in the
\* tabular arm, the run timestamp taken
MainSpawn ==
    /\ m_pc = "start"
    /\ m_pc' = "recv"
    /\ p_pc' = "open"
    /\ now' \in (IF format = "InvenioRDMNames" THEN Times ELSE {0})
    /\ UNCHANGED <<p_next, batch, chan, rx_alive, results, out, out_batch, flushed, pushed, received>>
    /\ UNCHANGED config_vars /\ UNCHANGED norm_vars
    /\ UNCHANGED extract_vars /\ UNCHANGED xml_vars

\* File::open / archive.entries() in the producer: expect() panics on failure
ProducerOpen ==
    /\ p_pc = "open"
    /\ \E opened \in BOOLEAN : p_pc' = IF opened THEN "loop" ELSE "panicked"
    /\ UNCHANGED <<p_next, batch, chan, rx_alive, m_pc, results, now, out, out_batch, flushed,
                   pushed, received>>
    /\ UNCHANGED config_vars /\ UNCHANGED norm_vars
    /\ UNCHANGED extract_vars /\ UNCHANGED xml_vars

\* one iteration of `for entry_result in entries` up to the send
ProducerRead ==
    /\ p_pc = "loop"
    /\ p_next <= Len(archive)
    /\ LET e == archive[p_next]
       IN  IF e.xml /\ e.readable
           THEN /\ batch' = Append(batch, e.doc)
                /\ p_pc' = IF Len(batch') >= batch_size THEN "send" ELSE "loop"
           ELSE UNCHANGED <<batch, p_pc>>
    /\ p_next' = p_next + 1
    /\ UNCHANGED <<chan, rx_alive, m_pc, results, now, out, out_batch, flushed, pushed, received>>
    /\ UNCHANGED config_vars /\ UNCHANGED norm_vars
    /\ UNCHANGED extract_vars /\ UNCHANGED xml_vars

\* ProducerSend that goes on with the loop when the send fails
ProducerSendIgnoresErr ==
    /\ p_pc = "send"
    /\ \/ /\ rx_alive
          /\ Len(chan) < QueueCapacity
          /\ chan' = Append(chan, batch)
          /\ pushed' = Append(pushed, batch)
       \/ /\ ~rx_alive
          /\ UNCHANGED <<chan, pushed>>
    /\ p_pc' = "loop"
    /\ batch' = <<>>
    /\ UNCHANGED <<p_next, rx_alive, m_pc, results, now, out, out_batch, flushed, received>>
    /\ UNCHANGED config_vars /\ UNCHANGED norm_vars
    /\ UNCHANGED extract_vars /\ UNCHANGED xml_vars

\* ProducerSend on a channel that takes a batch however many it holds
ProducerSendUnbounded ==
    /\ p_pc = "send"
    /\ \/ /\ rx_alive
          /\ chan' = Append(chan, batch)
          /\ pushed' = Append(pushed, batch)
          /\ p_pc' = "loop"
       \/ /\ ~rx_alive
          /\ p_pc' = "rest"
          /\ UNCHANGED <<chan, pushed>>
    /\ batch' = <<>>
    /\ UNCHANGED <<p_next, rx_alive, m_pc, results, now, out, out_batch, flushed, received>>
    /\ UNCHANGED config_vars /\ UNCHANGED norm_vars
    /\ UNCHANGED extract_vars /\ UNCHANGED xml_vars

\* tx.send(std::mem::take(&mut batch)) of a full batch: blocks while the
\* channel is full; Err, and break, when the receiver is gone
ProducerSend ==
    /\ p_pc = "send"
    /\ \/ /\ rx_alive
          /\ Len(chan) < QueueCapacity
          /\ chan' = Append(chan, batch)
          /\ pushed' = Append(pushed, batch)
          /\ p_pc' = "loop"
       \/ /\ ~rx_alive
          /\ p_pc' = "rest"
          /\ UNCHANGED <<chan, pushed>>
    /\ batch' = <<>>
    /\ UNCHANGED <<p_next, rx_alive, m_pc, results, now, out, out_batch, flushed, received>>
    /\ UNCHANGED config_vars /\ UNCHANGED norm_vars
    /\ UNCHANGED extract_vars /\ UNCHANGED xml_vars

\* the entries iterator is exhausted
ProducerExhausted ==
    /\ p_pc = "loop"
    /\ p_next > Len(archive)
    /\ p_pc' = "rest"
    /\ UNCHANGED <<p_next, batch, chan, rx_alive, m_pc, results, now, out, out_batch, flushed,
                   pushed, received>>
    /\ UNCHANGED config_vars /\ UNCHANGED norm_vars
    /\ UNCHANGED extract_vars /\ UNCHANGED xml_vars

\* ProducerSendRest that sends the trailing batch even when it is empty
ProducerSendRestAlways ==
    /\ p_pc = "rest"
    /\ \/ /\ rx_alive
          /\ Len(chan) < QueueCapacity
          /\ chan' = Append(chan, batch)
          /\ pushed' = Append(pushed, batch)
       \/ /\ ~rx_alive
          /\ UNCHANGED <<chan, pushed>>
    /\ batch' = <<>>
    /\ p_pc' = "done"
    /\ UNCHANGED <<p_next, rx_alive, m_pc, results, now, out, out_batch, flushed, received>>
    /\ UNCHANGED config_vars /\ UNCHANGED norm_vars
    /\ UNCHANGED extract_vars /\ UNCHANGED xml_vars

\* ProducerSendRest that forgets the trailing partial batch
ProducerSendRestDropped ==
    /\ p_pc = "rest"
    /\ batch' = <<>>
    /\ p_pc' = "done"
    /\ UNCHANGED <<chan, pushed, p_next, rx_alive, m_pc, results, now, out, out_batch, flushed,
                   received>>
    /\ UNCHANGED config_vars /\ UNCHANGED norm_vars
    /\ UNCHANGED extract_vars /\ UNCHANGED xml_vars

\* if !batch.is_empty() { let _ = tx.send(batch); }, then the closure ends and
\* tx is dropped
ProducerSendRest ==
    /\ p_pc = "rest"
    /\ \/ /\ batch = <<>>
          /\ UNCHANGED <<chan, pushed>>
       \/ /\ batch # <<>>
          /\ rx_alive
          /\ Len(chan) < QueueCapacity
          /\ chan' = Append(chan, batch)
          /\ pushed' = Append(pushed, batch)
       \/ /\ batch # <<>>
          /\ ~rx_alive
          /\ UNCHANGED <<chan, pushed>>
    /\ batch' = <<>>
    /\ p_pc' = "done"
    /\ UNCHANGED <<p_next, rx_alive, m_pc, results, now, out, out_batch, flushed, received>>
    /\ UNCHANGED config_vars /\ UNCHANGED norm_vars
    /\ UNCHANGED extract_vars /\ UNCHANGED xml_vars

\* MainRecv on a channel that hands out the newest batch first
MainRecvNewest ==
    /\ m_pc = "recv"
    /\ chan # <<>>
    /\ chan' = SubSeq(chan, 1, Len(chan) - 1)
    /\ received' = Append(received, chan[Len(chan)])
    /\ results' = transform(chan[Len(chan)], format, org_map, now,
                            name_filter_re_of(filter_name), Len(received) + 1)
    /\ m_pc' = IF results' = <<>> THEN "recv" ELSE "write"
    /\ UNCHANGED <<p_pc, p_next, batch, rx_alive, now, out, out_batch, flushed, pushed>>
    /\ UNCHANGED config_vars /\ UNCHANGED norm_vars
    /\ UNCHANGED extract_vars /\ UNCHANGED xml_vars

\* `for batch in rx` yields the next batch, which is transformed at once
MainRecv ==
    /\ m_pc = "recv"
    /\ chan # <<>>
    /\ chan' = Tail(chan)
    /\ received' = Append(received, Head(chan))
    /\ results' = transform(Head(chan), format, org_map, now,
                            name_filter_re_of(filter_name), Len(received) + 1)
    /\ m_pc' = IF results' = <<>> THEN "recv" ELSE "write"
    /\ UNCHANGED <<p_pc, p_next, batch, rx_alive, now, out, out_batch, flushed, pushed>>
    /\ UNCHANGED config_vars /\ UNCHANGED norm_vars
    /\ UNCHANGED extract_vars /\ UNCHANGED xml_vars

\* MainRecvEnd that stops at an empty channel without waiting for the sender
MainRecvEndEarly ==
    /\ m_pc = "recv"
    /\ chan = <<>>
    /\ m_pc' = "join"
    /\ rx_alive' = FALSE
    /\ UNCHANGED <<p_pc, p_next, batch, chan, results, now, out, out_batch, flushed, pushed,
                   received>>
    /\ UNCHANGED config_vars /\ UNCHANGED norm_vars
    /\ UNCHANGED extract_vars /\ UNCHANGED xml_vars

\* MainRecvEnd that sees the end of the channel only when the producer
\* returned, not when it panicked
MainRecvEndOnReturnOnly ==
    /\ m_pc = "recv"
    /\ chan = <<>>
    /\ p_pc = "done"
    /\ m_pc' = "join"
    /\ rx_alive' = FALSE
    /\ UNCHANGED <<p_pc, p_next, batch, chan, results, now, out, out_batch, flushed,
                   pushed, received>>
    /\ UNCHANGED config_vars /\ UNCHANGED norm_vars
    /\ UNCHANGED extract_vars /\ UNCHANGED xml_vars

\* `for batch in rx` ends: the channel is empty and the sender dropped
MainRecvEnd ==
    /\ m_pc = "recv"
    /\ chan = <<>>
    /\ p_pc \in {"done", "panicked"}
    /\ m_pc' = "join"
    /\ rx_alive' = FALSE
    /\ UNCHANGED <<p_pc, p_next, batch, chan, results, now, out, out_batch, flushed, pushed,
                   received>>
    /\ UNCHANGED config_vars /\ UNCHANGED norm_vars
    /\ UNCHANGED extract_vars /\ UNCHANGED xml_vars

\* out_stream is a BufWriter (and, in the tabular arm, a csv::Writer on top
\* of it, the two taken together here): a record handed to it stays in its
\* buffer while there is room, and the buffer goes to the output destination
\* when the next record does not fit. BufCapacity is the room, in records.
BufCapacity == 1

\* dropping out_stream flushes its buffer and ignores a failure of the flush:
\* the values `flushed` can have once out_stream is dropped
drop_out_stream == {flushed, Len(out)}

\* out_stream.write_all(&bytes)? / csv_writer.serialize(&row)? for the next
\* result. With room in the buffer the record is buffered and the call
\* succeeds; without, the buffer is flushed first, and when that fails the
\* call fails: convert_tgz returns Err, which drops rx and out_stream.
MainWrite ==
    /\ m_pc = "write"
    /\ \E written \in BOOLEAN :
           /\ (~written) => Len(out) - flushed >= BufCapacity
           /\ IF written
              THEN /\ out' = Append(out, Head(results))
                   /\ out_batch' = Append(out_batch, Len(received))
                   /\ flushed' = IF Len(out) - flushed < BufCapacity
                                 THEN flushed ELSE Len(out)
                   /\ results' = Tail(results)
                   /\ m_pc' = IF results' = <<>> THEN "recv" ELSE "write"
                   /\ UNCHANGED <<chan, rx_alive>>
              ELSE /\ m_pc' = "err"
                   /\ rx_alive' = FALSE
                   /\ chan' = <<>>
                   /\ results' = <<>>
                   /\ flushed' \in drop_out_stream
                   /\ UNCHANGED <<out, out_batch>>
    /\ UNCHANGED <<p_pc, p_next, batch, now, pushed, received>>
    /\ UNCHANGED config_vars /\ UNCHANGED norm_vars
    /\ UNCHANGED extract_vars /\ UNCHANGED xml_vars

\* MainJoin that returns Ok whatever became of the producer thread
MainJoinIgnoresPanic ==
    /\ m_pc = "join"
    /\ p_pc \in {"done", "panicked"}
    /\ m_pc' = "ok"
    /\ flushed' \in drop_out_stream
    /\ UNCHANGED <<p_pc, p_next, batch, chan, rx_alive, results, now, out, out_batch,
                   pushed, received>>
    /\ UNCHANGED config_vars /\ UNCHANGED norm_vars
    /\ UNCHANGED extract_vars /\ UNCHANGED xml_vars

\* producer.join().expect("Producer thread panicked"); Ok(())
\* Returning, or unwinding from the panic, drops out_stream.
MainJoin ==
    /\ m_pc = "join"
    /\ p_pc \in {"done", "panicked"}
    /\ m_pc' = IF p_pc = "done" THEN "ok" ELSE "panic"
    /\ flushed' \in drop_out_stream
    /\ UNCHANGED <<p_pc, p_next, batch, chan, rx_alive, results, now, out, out_batch,
                   pushed, received>>
    /\ UNCHANGED config_vars /\ UNCHANGED norm_vars
    /\ UNCHANGED extract_vars /\ UNCHANGED xml_vars

Next ==
    \/ MainOpenOutputFails
    \/ MainSpawn
    \/ ProducerOpen
    \/ ProducerRead
    \/ ProducerSend
    \/ ProducerExhausted
    \/ ProducerSendRest
    \/ MainRecv
    \/ MainRecvEnd
    \/ MainWrite
    \/ MainJoin

Spec == Init /\ [][Next]_vars

----------------------------------------------------------------------------
\* Properties of record_to_json (checked under SpecNorm)

NormDone == n_pc = "done"
NormGiven == n_record.person.name.given_names
NormFamily == n_record.person.name.family_name
NormEmployments ==
    IF is_some(n_record.activities.employments.employment)
    THEN unwrap(n_record.activities.employments.employment) ELSE <<>>
\* the affiliation list of the result (absent = empty)
NormAffiliations ==
    IF is_ok(n_result) /\ is_some(ok_val(n_result).affiliations)
    THEN unwrap(ok_val(n_result).affiliations) ELSE <<>>

\* a name that is present and non-empty after trimming
NonEmptyName(o) == is_some(o) /\ ~is_empty(trim(unwrap(o)))

\* C5: whenever exactly one of given-name / family-name is non-empty after
\* trimming (the other absent, empty or whitespace-only), record_to_json
\* succeeds with name = family_name = that single value and given_name = "".
\* The value is compared in the composed form the result is emitted in, so
\* that only the name derivation decides the property.
C5_SingleNameUsed ==
    NormDone =>
        \A o \in {NormGiven, NormFamily} :
            (NonEmptyName(o)
             /\ (NonEmptyName(NormGiven) # NonEmptyName(NormFamily)))
            => /\ is_ok(n_result)
               /\ ok_val(n_result).name = nfc(unwrap(o))
               /\ ok_val(n_result).family_name = nfc(unwrap(o))
               /\ ok_val(n_result).given_name = <<>>

\* C6 as stated: with both names non-empty after trimming, record_to_json
\* succeeds with family_name and given_name verbatim from the record and
\* name = "{family_name}, {given_name}".
C6_BothNamesVerbatim ==
    (NormDone /\ NonEmptyName(NormGiven) /\ NonEmptyName(NormFamily))
    => /\ is_ok(n_result)
       /\ ok_val(n_result).family_name = unwrap(NormFamily)
       /\ ok_val(n_result).given_name = unwrap(NormGiven)
       /\ ok_val(n_result).name =
              format_name(ok_val(n_result).family_name, ok_val(n_result).given_name)

\* C6 amended: with both names non-empty after trimming, record_to_json
\* succeeds with family_name and given_name the record's values in NFC form
\* (untrimmed) and name = "{family_name}, {given_name}".
C6_BothNamesNfc ==
    (NormDone /\ NonEmptyName(NormGiven) /\ NonEmptyName(NormFamily))
    => /\ is_ok(n_result)
       /\ ok_val(n_result).family_name = nfc(unwrap(NormFamily))
       /\ ok_val(n_result).given_name = nfc(unwrap(NormGiven))
       /\ ok_val(n_result).name =
              format_name(ok_val(n_result).family_name, ok_val(n_result).given_name)

\* both names non-empty, one of them not in composed form, normalized
C6_Witness ==
    /\ NormDone /\ is_ok(n_result)
    /\ NormGiven = Some(<<"e", "^">>) /\ NormFamily = Some(<<" ", "b">>)
    /\ ok_val(n_result).name = <<" ", "b", ",", " ", "E">>

\* the active employments of the record, in input order
ActiveEmployments == SelectSeq(NormEmployments, LAMBDA a : is_none(a.employment.end))

\* C8: the affiliation list holds at most one entry per canonical id, at most
\* one entry without canonical id per display name, and no entry that comes
\* from an employment carrying an end marker (every entry is the affiliation
\* of an active employment, and there are no more entries than those).
C8_AffiliationsUnique ==
    (NormDone /\ is_ok(n_result)) =>
        LET affs == NormAffiliations
        IN  /\ \A i, j \in 1..Len(affs) :
                   i < j => /\ (is_some(affs[i].id) /\ is_some(affs[j].id))
                                => affs[i].id # affs[j].id
                            /\ (is_none(affs[i].id) /\ is_none(affs[j].id))
                                => affs[i].name # affs[j].name
            /\ \A i \in 1..Len(affs) :
                   \E k \in 1..Len(ActiveEmployments) :
                       /\ affs[i].name = nfc(ActiveEmployments[k].employment.organization.name)
                       /\ affs[i].id = ror_id_of(
                              ActiveEmployments[k].employment.organization.identifier,
                              n_org_map)
            /\ Len(affs) <= Len(ActiveEmployments)

\* a past and an active employment at organizations resolving to one id, and
\* two unidentified active employments of one name: one entry each
C8_Witness ==
    /\ NormDone /\ is_ok(n_result)
    /\ Len(NormEmployments) = 2
    /\ is_some(NormEmployments[1].employment.end)
    /\ is_none(NormEmployments[2].employment.end)
    /\ Len(NormAffiliations) = 1

\* the deduplication key of an affiliation
DedupKey(a) == IF is_some(a.id) THEN <<"id", unwrap(a.id)>> ELSE <<"name", a.name>>

\* the subsequence of s at the positions in keep, from position i on
RECURSIVE PickFrom(_, _, _)
PickFrom(s, i, keep) ==
    IF i > Len(s) THEN <<>>
    ELSE (IF i \in keep THEN <<s[i]>> ELSE <<>>) \o PickFrom(s, i + 1, keep)

\* C9: the affiliation list is the subsequence of the active employments'
\* affiliations, in input order, keeping for each canonical id its first
\* occurrence and, among entries without id, the first occurrence of each
\* display name.
C9_FirstOccurrence ==
    (NormDone /\ is_ok(n_result)) =>
        LET cand == [k \in 1..Len(ActiveEmployments) |->
                        [id |-> ror_id_of(
                                   ActiveEmployments[k].employment.organization.identifier,
                                   n_org_map),
                         name |-> nfc(ActiveEmployments[k].employment.organization.name)]]
            keep == {i \in 1..Len(cand) :
                        \A j \in 1..(i - 1) : DedupKey(cand[j]) # DedupKey(cand[i])}
        IN  NormAffiliations = PickFrom(cand, 1, keep)

\* two active employments resolving to the same canonical id under different
\* display names collapse to one entry carrying the first-seen name
C9_Witness ==
    /\ NormDone /\ is_ok(n_result)
    /\ Len(ActiveEmployments) = 2
    /\ ActiveEmployments[1].employment.organization.name = <<"u">>
    /\ ActiveEmployments[2].employment.organization.name = <<"E">>
    /\ ActiveEmployments[1].employment.organization.identifier
           = Some(OrgIdentifier("ROR", <<"x", "/", "r">>))
    /\ ActiveEmployments[2].employment.organization.identifier
           = Some(OrgIdentifier("FUNDREF", <<"x", "/", "r">>))
    /\ NormAffiliations = <<[id |-> Some(<<"r">>), name |-> <<"u">>]>>

\* the text after the last '/' of a text that holds one
AfterLastSlash(s) ==
    LET i == CHOOSE k \in 1..Len(s) :
                 s[k] = "/" /\ \A j \in (k + 1)..Len(s) : s[j] # "/"
    IN  SubSeq(s, i + 1, Len(s))

HasSlash(s) == \E k \in 1..Len(s) : s[k] = "/"

\* C10: an active employment with a ROR identifier has as canonical id the
\* text after the identifier's last '/', whatever the OrgMap holds, so the
\* result carries an affiliation with that id; and the record of the
\* integration test (path 0000-0002-5082-6404, Alex, Ioannidis, one active
\* employment with ROR identifier .../01ggx4157) gives name "Ioannidis, Alex",
\* identifiers [{orcid, 0000-0002-5082-6404}] and affiliations
\* [{id 01ggx4157, name = the organization display name}].
C10_RorTrailingSegment ==
    (NormDone /\ is_ok(n_result)) =>
        /\ \A k \in 1..Len(ActiveEmployments) :
               LET oid == ActiveEmployments[k].employment.organization.identifier
               IN  (is_some(oid) /\ unwrap(oid).source = "ROR"
                    /\ HasSlash(unwrap(oid).identifier))
                   => \E i \in 1..Len(NormAffiliations) :
                          /\ NormAffiliations[i].id
                                 = Some(AfterLastSlash(unwrap(oid).identifier))
                          /\ \E j \in 1..k :
                                 NormAffiliations[i].name =
                                     nfc(ActiveEmployments[j].employment.organization.name)
        /\ n_record = AlexRecord =>
               ok_val(n_result) =
                   [given_name |-> <<"A", "l", "e", "x">>,
                    family_name |-> <<"I", "o", "a", "n", "n", "i", "d", "i", "s">>,
                    name |-> <<"I", "o", "a", "n", "n", "i", "d", "i", "s", ",", " ",
                               "A", "l", "e", "x">>,
                    identifiers |-> <<[scheme |-> "orcid", identifier |-> AlexPath]>>,
                    affiliations |-> Some(<<[id |-> Some(<<"0", "1", "g", "g", "x",
                                                           "4", "1", "5", "7">>),
                                             name |-> AlexOrgName]>>)]

\* the integration-test record normalized under an OrgMap that holds ROR keys
C10_Witness ==
    /\ NormDone /\ is_ok(n_result)
    /\ n_record = AlexRecord /\ n_org_map = OrgMapB
    /\ Len(NormAffiliations) = 1

----------------------------------------------------------------------------
\* Properties of a run of convert_tgz (checked under Spec)

RangeOf(q) == {q[i] : i \in 1..Len(q)}
CountIn(q, x) == Cardinality({i \in 1..Len(q) : q[i] = x})
SameBag(a, b) == \A x \in RangeOf(a) \cup RangeOf(b) : CountIn(a, x) = CountIn(b, x)

RECURSIVE Flatten(_)
Flatten(batches) ==
    IF batches = <<>> THEN <<>> ELSE Head(batches) \o Flatten(Tail(batches))

\* the contents of the entries with the .xml suffix that could be read
DeliverableEntries == SelectSeq(archive, LAMBDA e : e.xml /\ e.readable)
DeliverableDocs == [i \in 1..Len(DeliverableEntries) |-> DeliverableEntries[i].doc]

\* the compiled filter of the run
RunFilter == name_filter_re_of(filter_name)

\* the document decodes, normalizes and passes the filter in effect
Survives(d) ==
    /\ d.valid
    /\ is_ok(record_to_json(d.record, org_map))
    /\ is_some(RunFilter)
           => is_match(unwrap(RunFilter), ok_val(record_to_json(d.record, org_map)).name)

\* the normalized record of a surviving document, as emitted
JsonOfDoc(d) == serialize_name_json(ok_val(record_to_json(d.record, org_map)))

\* the normalized record an output item carries, in either format
JsonOfItem(item) == IF format = "JSON" THEN item ELSE item.json
OutJsons == [i \in 1..Len(out) |-> JsonOfItem(out[i])]

SurvivingDocs == SelectSeq(DeliverableDocs, Survives)
ExpectedJsons == [i \in 1..Len(SurvivingDocs) |-> JsonOfDoc(SurvivingDocs[i])]

\* C1: a document that fails to decode is dropped without stopping the run:
\* a run that ends Ok has written exactly one record per document that
\* decodes, normalizes and passes the filter, however many documents of the
\* archive fail to decode, every such document has its record in the output,
\* and a decode failure never makes the run panic.
C1_DecodeFailureDropped ==
    /\ m_pc = "ok" =>
           /\ Len(out) = Len(SurvivingDocs)
           /\ \A d \in RangeOf(DeliverableDocs) :
                  Survives(d) => JsonOfDoc(d) \in RangeOf(OutJsons)
    /\ m_pc = "panic" => p_pc = "panicked"

\* one valid and one structurally invalid document in one batch: one record
C1_Witness ==
    /\ m_pc = "ok"
    /\ DeliverableDocs = <<DocBad, DocA>>
    /\ batch_size = 2
    /\ Len(out) = 1

\* C2: whenever convert_tgz returns Ok the producer has finished and the
\* documents received by the transform stage are exactly the contents of the
\* archive entries that have the .xml suffix and could be read, one for one.
C2_NoTruncation ==
    m_pc = "ok" => /\ p_pc = "done"
                   /\ Flatten(received) = DeliverableDocs

\* an archive with an entry of another suffix, an unreadable one and two
\* documents, all received
C2_Witness ==
    /\ m_pc = "ok"
    /\ Len(archive) = 3 /\ Len(DeliverableDocs) = 2
    /\ \E i \in 1..Len(archive) : ~archive[i].xml
    /\ Len(received) = 2

\* the items written for batch k, in write order
OutOfBatch(k) ==
    LET at == SelectSeq([i \in 1..Len(out) |-> i], LAMBDA i : out_batch[i] = k)
    IN  [j \in 1..Len(at) |-> out[at[j]]]

IsPrefix(a, b) == Len(a) <= Len(b) /\ \A i \in 1..Len(a) : a[i] = b[i]

\* what the state says about C3
C3_OrderState ==
    /\ IsPrefix(received, pushed)
    /\ \A i, j \in 1..Len(out_batch) : i < j => out_batch[i] <= out_batch[j]
    /\ \A k \in 1..Len(received) :
           IsPrefix(OutOfBatch(k),
                    transform(received[k], format, org_map, now, RunFilter, k))

\* C3: batches are received in the order the producer pushed them, every
\* record of a batch is written before any record of a later batch, and only
\* the main thread writes: a step that changes the output is a write step of
\* the main thread that leaves the producer where it is.
C3_BatchOrder ==
    /\ []C3_OrderState
    /\ [][out' # out =>
              /\ m_pc = "write"
              /\ UNCHANGED <<p_pc, p_next, batch, pushed>>
              /\ Len(out') = Len(out) + 1
              /\ IsPrefix(out, out')]_vars

\* two batches were in the channel together and records of both are written
C3_Witness ==
    /\ Len(pushed) >= 2 /\ Len(out) >= 2
    /\ out_batch[1] = 1 /\ out_batch[Len(out)] = 2
    /\ m_pc = "ok"

\* C4: the multiset of normalized records a successful run writes is fixed
\* by the archive, the OrgMap and the name filter alone: it is the same for
\* every batch size.
C4_BatchSizeIndependent ==
    m_pc = "ok" => SameBag(OutJsons, ExpectedJsons)

\* a run whose last batch is partial
C4_Witness ==
    /\ m_pc = "ok"
    /\ batch_size = 2
    /\ Len(DeliverableDocs) = 3
    /\ Len(out) = 3

\* at least one of the names is present and non-empty after trimming
HasUsableName(record) ==
    \/ NonEmptyName(record.person.name.given_names)
    \/ NonEmptyName(record.person.name.family_name)

\* C7: a record whose names are both absent or empty / whitespace-only is
\* excluded and the run goes on; with no name filter, the number of records a
\* successful run writes is the number of documents that decode and have a
\* usable name.
C7_OutputCountsUsable ==
    (m_pc = "ok" /\ is_none(filter_name)) =>
        /\ Len(out) = Len(SelectSeq(DeliverableDocs,
                                    LAMBDA d : d.valid /\ HasUsableName(d.record)))
        /\ \A d \in RangeOf(DeliverableDocs) :
               (d.valid /\ ~HasUsableName(d.record))
               => ~is_ok(record_to_json(d.record, org_map))

----------------------------------------------------------------------------
\* Organization mapping and identifiers without '/' (checked under SpecNorm)

\* the record is one of the FUNDREF scenario, normalized
FundrefCase == NormDone /\ n_record \in FundrefRecords

\* C11 as stated: with an OrgMap read from a mapping file holding the row
\* ("FUNDREF", "10.13039/501100001665", "01234abc"), an active employment
\* with identifier {FUNDREF, ".../501100001665"} gets canonical id "01234abc".
C11_FundrefDoiRowResolves ==
    (FundrefCase /\ n_org_map = read_org_ids(FundrefFileDoi))
    => /\ is_ok(n_result)
       /\ NormAffiliations = <<[id |-> Some(FundrefRorId), name |-> <<"u">>]>>

\* C11 amended: the row resolves the employment when its identifier column
\* holds the trailing segment "501100001665" (the last such row winning),
\* and the row that holds "10.13039/501100001665" leaves the employment
\* without canonical id.
C11_FundrefNumberRowResolves ==
    /\ (FundrefCase /\ n_org_map = read_org_ids(FundrefFileNumber))
       => /\ is_ok(n_result)
          /\ NormAffiliations = <<[id |-> Some(FundrefRorId), name |-> <<"u">>]>>
    /\ (FundrefCase /\ n_org_map = read_org_ids(FundrefFileDoi))
       => /\ is_ok(n_result)
          /\ NormAffiliations = <<[id |-> None, name |-> <<"u">>]>>

\* the employment carrying the funder URL, resolved through the file whose
\* row holds the trailing segment
C11_Witness ==
    /\ FundrefCase
    /\ n_org_map = read_org_ids(FundrefFileNumber)
    /\ ActiveEmployments[1].employment.organization.identifier
           = Some(OrgIdentifier("FUNDREF", FundrefUrl))
    /\ NormAffiliations = <<[id |-> Some(FundrefRorId), name |-> <<"u">>]>>

\* C12: for an active employment whose identifier has scheme ROR or FUNDREF
\* and holds no '/', normalization does not fail and the raw identifier value
\* is used: as the canonical id for ROR, as the OrgMap lookup key for FUNDREF.
\* (Records of a single employment, so that deduplication plays no part.)
C12_NoSlashFallsBackToRaw ==
    (NormDone /\ n_record \in AffilRecords /\ Len(NormEmployments) = 1
     /\ Len(ActiveEmployments) = 1
     /\ is_some(ActiveEmployments[1].employment.organization.identifier))
    => LET oid == unwrap(ActiveEmployments[1].employment.organization.identifier)
       IN  (oid.source \in {"ROR", "FUNDREF"} /\ ~HasSlash(oid.identifier))
           => /\ is_ok(n_result)
              /\ Len(NormAffiliations) = 1
              /\ NormAffiliations[1].id =
                     IF oid.source = "ROR" THEN Some(oid.identifier)
                     ELSE org_map_get(n_org_map,
                                      ExtractedIdentifier("FUNDREF", oid.identifier))

----------------------------------------------------------------------------
\* Failures of the run (checked under Spec)

\* C13: a write failure on the output destination is fatal: convert_tgz
\* returns an error at the first failed write, so a run that returns Ok has
\* seen no write fail and every record it handed to the output stream is in
\* the output; after a failure no further record is written and the records
\* written before it remain.
C13_WriteFailureFatal ==
    /\ m_pc = "ok" => flushed = Len(out)
    /\ m_pc = "err" => /\ results = <<>>
                       /\ flushed <= Len(out)

\* the input could not be opened or its entries not be read: the producer
\* thread panicked; the output could not be opened: convert_tgz returned Err
\* before the producer was spawned
InputSetupFailed == p_pc = "panicked"
OutputSetupFailed == p_pc = "unspawned" /\ m_pc = "err"

\* C14: after a setup failure (input cannot be opened, its entry index cannot
\* be read, output cannot be opened) the run aborts at once with a failure
\* outcome: the main thread can only go on to the failure, it never returns
\* Ok, and no record is handed to the output or reaches the destination.
C14_SetupFailureAborts ==
    /\ [](InputSetupFailed =>
              /\ m_pc \in {"recv", "join", "panic"}
              /\ pushed = <<>> /\ received = <<>> /\ out = <<>> /\ flushed = 0)
    /\ [](OutputSetupFailed => out = <<>> /\ flushed = 0 /\ pushed = <<>>)
    /\ [][(InputSetupFailed => m_pc' \in {"join", "panic"})
          /\ (OutputSetupFailed => FALSE)]_vars

\* an archive with a document in it, the input not opened: the run panicked
C14_Witness ==
    /\ InputSetupFailed
    /\ m_pc = "panic"
    /\ Len(DeliverableDocs) >= 1
    /\ out = <<>>

----------------------------------------------------------------------------
\* The name filter and the tabular rows (checked under Spec)

\* the display name an emitted normalized record carries
NameOfJson(j) == (CHOOSE pair \in RangeOf(j) : pair[1] = "name")[2]

\* the document decodes and normalizes
Normalizes(d) == d.valid /\ is_ok(record_to_json(d.record, org_map))
DisplayName(d) == ok_val(record_to_json(d.record, org_map)).name

\* every result of received batch k has been written
BatchWritten(k) == k < Len(received) \/ m_pc \in {"recv", "join", "ok", "panic"}

\* the normalized records of batch k's documents whose display name matches
MatchingOfBatch(k) ==
    LET docs == SelectSeq(received[k],
                          LAMBDA d : Normalizes(d)
                                     /\ is_match(unwrap(RunFilter), DisplayName(d)))
    IN  [j \in 1..Len(docs) |-> JsonOfDoc(docs[j])]

\* C15: with a compiled name filter, in both formats, a normalized record is
\* written if and only if its display name matches the pattern: every record
\* in the output matches, and of every batch exactly the matching records of
\* its documents are written, whatever documents of that batch or of earlier
\* batches were rejected, undecodable or not normalizable.
C15_FilterIff ==
    is_some(RunFilter) =>
        /\ \A i \in 1..Len(out) : is_match(unwrap(RunFilter), NameOfJson(OutJsons[i]))
        /\ \A k \in 1..Len(received) :
               BatchWritten(k) =>
                   [j \in 1..Len(OutOfBatch(k)) |-> JsonOfItem(OutOfBatch(k)[j])]
                       = MatchingOfBatch(k)

\* tabular format, a batch holding a rejected document followed by a matching
\* one, then a later batch with a matching document
C15_Witness ==
    /\ is_some(RunFilter)
    /\ format = "InvenioRDMNames"
    /\ m_pc = "ok"
    /\ Len(received) = 2
    /\ \E i, j \in 1..Len(received[1]) :
           /\ i < j
           /\ Normalizes(received[1][i])
           /\ ~is_match(unwrap(RunFilter), DisplayName(received[1][i]))
           /\ Normalizes(received[1][j])
           /\ is_match(unwrap(RunFilter), DisplayName(received[1][j]))
    /\ Len(OutOfBatch(1)) = 1 /\ Len(OutOfBatch(2)) = 1

\* C17: every row of the tabular output has created = updated = the run
\* timestamp, which is taken once, before any batch is received, so that all
\* rows of a run share it; every row has version_id 1 and the path of the
\* record it was built from as pid (the row's id names that document: the
\* j-th of batch k).
C17_RowState ==
    format = "InvenioRDMNames" =>
        \A i \in 1..Len(out) :
            /\ now \in Times
            /\ out[i].created = now /\ out[i].updated = now
            /\ out[i].version_id = 1
            /\ out[i].id[1] = out_batch[i]
            /\ out[i].pid = received[out[i].id[1]][out[i].id[2]].record.identifier.path

C17_RowStamps ==
    /\ []C17_RowState
    /\ [][now' # now => (m_pc = "start" /\ received = <<>> /\ out = <<>>)]_vars

\* rows of two records with different paths, from two batches
C17_Witness ==
    /\ format = "InvenioRDMNames"
    /\ Len(out) >= 2
    /\ out[1].pid # out[2].pid
    /\ out_batch[1] # out_batch[2]
    /\ out[1].created = out[2].updated
    /\ now = 2

----------------------------------------------------------------------------
\* The channel between producer and main thread (checked under Spec)

\* documents the producer has read that the main thread has not received
InFlight == Len(batch) + Len(Flatten(chan))

\* the producer is at a send that cannot proceed
ProducerBlocked ==
    /\ rx_alive
    /\ Len(chan) = QueueCapacity
    /\ \/ p_pc = "send"
       \/ p_pc = "rest" /\ batch # <<>>

\* C19: the channel never holds more than its capacity of batches; while it
\* is full the producer's send does not return, so that the producer reads
\* no entry and pushes nothing until the main thread takes a batch; the
\* documents read and not yet received never exceed
\* (capacity + 1) * BATCH_SIZE.
C19_Backpressure ==
    /\ [](/\ Len(chan) <= QueueCapacity
          /\ InFlight <= (QueueCapacity + 1) * batch_size)
    /\ [][ProducerBlocked => UNCHANGED <<p_pc, p_next, batch, pushed>>]_vars

\* a full channel, the producer blocked with one more full batch in hand
C19_Witness ==
    /\ ProducerBlocked
    /\ p_pc = "send"
    /\ InFlight = (QueueCapacity + 1) * batch_size

\* ceil(n / d)
CeilDiv(n, d) == (n + d - 1) \div d

\* C20: every batch the producer pushed is non-empty and holds at most
\* BATCH_SIZE documents, every pushed batch but the last holds exactly
\* BATCH_SIZE; and when the main thread stayed alive until the producer
\* finished, the pushed batches are the readable documents cut into
\* ceil(n / BATCH_SIZE) batches: the trailing partial batch is pushed once
\* when there is one, and no empty batch when n is a multiple of BATCH_SIZE
\* (zero included).
C20_BatchShape ==
    /\ \A k \in 1..Len(pushed) :
           /\ pushed[k] # <<>>
           /\ Len(pushed[k]) <= batch_size
           /\ k < Len(pushed) => Len(pushed[k]) = batch_size
    /\ (p_pc = "done" /\ m_pc # "err") =>
           /\ Flatten(pushed) = DeliverableDocs
           /\ Len(pushed) = CeilDiv(Len(DeliverableDocs), batch_size)

\* three documents in batches of two: a full batch and a trailing one
C20_Witness ==
    /\ p_pc = "done" /\ m_pc # "err"
    /\ batch_size = 2
    /\ Len(DeliverableDocs) = 3
    /\ Len(pushed) = 2
    /\ Len(pushed[2]) = 1

----------------------------------------------------------------------------
\* extract_tgz: the organization identifiers of an archive (SpecExtract)

\* collect_org_ids: the HashSet of the identifiers of all employments of a
\* record, ended or not
collect_org_ids(record) ==
    LET emps == IF is_some(record.activities.employments.employment)
                THEN unwrap(record.activities.employments.employment) ELSE <<>>
    IN  {ExtractedIdentifier(unwrap(emps[i].employment.organization.identifier).source,
                             unwrap(emps[i].employment.organization.identifier).identifier) :
            i \in {j \in 1..Len(emps) :
                      is_some(emps[j].employment.organization.identifier)}}

\* the orders in which iterating a HashSet can visit its elements
iter_orders(set) ==
    {q \in [1..Cardinality(set) -> set] : \A i, j \in 1..Cardinality(set) :
                                              q[i] = q[j] => i = j}

\* records for extraction: employments with identifiers of two schemes,
\* repeated within and across records, with and without end date
IdRor == Some(OrgIdentifier("ROR", <<"x", "/", "r">>))
IdGrid == Some(OrgIdentifier("GRID", <<"r">>))
ExtractDoc(path, ends, ids) ==
    Doc(TRUE, Record(path, None, None,
                     Some([i \in 1..Len(ids) |->
                              AffiliationGroup(ends[i], Organization(<<"u">>, ids[i]))])))
ExtractDocs ==
    {ExtractDoc("p-1", <<None, None>>, <<IdRor, IdGrid>>),
     ExtractDoc("p-2", <<None, Some("end")>>, <<IdGrid, IdRor>>),
     ExtractDoc("p-3", <<None, None>>, <<IdRor, IdRor>>),
     ExtractDoc("p-4", <<Some("end"), None>>, <<IdGrid, None>>),
     DocBad}
ExtractEntries ==
    {Entry(FALSE, TRUE, DocBad), Entry(TRUE, FALSE, DocBad)}
    \cup {Entry(TRUE, TRUE, d) : d \in ExtractDocs}

InitExtract ==
    /\ n_pc = "idle" /\ n_record = AlexRecord /\ n_org_map = EmptyOrgMap /\ n_result = Err
    /\ archive \in SeqsUpTo(ExtractEntries, MaxEntries)
    /\ batch_size = 1 /\ format = "JSON" /\ filter_name = None
    /\ org_map = EmptyOrgMap /\ p_pc = "unspawned" /\ p_next = 1 /\ batch = <<>>
    /\ chan = <<>> /\ rx_alive = TRUE /\ m_pc = "idle" /\ results = <<>>
    /\ now = 0 /\ out = <<>> /\ out_batch = <<>> /\ pushed = <<>> /\ received = <<>>
    /\ flushed = 0
    /\ e_pc = "start" /\ e_next = 1 /\ identifiers = {} /\ org_ids = <<>>
    /\ XmlIdle

extract_rest == <<n_record, n_org_map, n_result, n_pc,
                  archive, batch_size, format, filter_name, org_map, p_pc, p_next,
                  batch, chan, rx_alive, m_pc, results, now, out_batch, flushed,
                  pushed, received, x_pc, x_cause, x_out>>

\* File::open(input_file)?, archive.entries().unwrap(), File::create(..)?
ExtractOpen ==
    /\ e_pc = "start"
    /\ e_pc' \in {"next", "err", "panic"}
    /\ UNCHANGED <<e_next, identifiers, org_ids, out>>
    /\ UNCHANGED extract_rest

\* `for r in records`: iter_records passes over the entries that are not
\* .xml, cannot be read or do not parse; of the next record the identifiers
\* are collected and the iteration over them begins
ExtractNextRecord ==
    /\ e_pc = "next"
    /\ e_next <= Len(archive)
    /\ LET e == archive[e_next]
       IN  IF e.xml /\ e.readable /\ is_some(parse_xml(e.doc))
           THEN /\ org_ids' \in iter_orders(collect_org_ids(unwrap(parse_xml(e.doc))))
                /\ e_pc' = "ids"
                /\ UNCHANGED e_next
           ELSE /\ e_next' = e_next + 1
                /\ UNCHANGED <<org_ids, e_pc>>
    /\ UNCHANGED <<identifiers, out>>
    /\ UNCHANGED extract_rest

\* one iteration of `for i in &org_ids`: an identifier not in the set is
\* written, and a failed write makes extract_tgz return Err
ExtractWrite ==
    /\ e_pc = "ids"
    /\ org_ids # <<>>
    /\ IF Head(org_ids) \in identifiers
       THEN /\ org_ids' = Tail(org_ids)
            /\ UNCHANGED <<out, e_pc>>
       ELSE \E written \in BOOLEAN :
                IF written
                THEN /\ out' = Append(out, Head(org_ids))
                     /\ org_ids' = Tail(org_ids)
                     /\ UNCHANGED e_pc
                ELSE /\ e_pc' = "err"
                     /\ org_ids' = <<>>
                     /\ UNCHANGED out
    /\ UNCHANGED <<e_next, identifiers>>
    /\ UNCHANGED extract_rest

\* ExtractExtend that does not add the record's identifiers to the set
ExtractExtendForgets ==
    /\ e_pc = "ids"
    /\ org_ids = <<>>
    /\ e_next' = e_next + 1
    /\ e_pc' = "next"
    /\ UNCHANGED <<identifiers, org_ids, out>>
    /\ UNCHANGED extract_rest

\* identifiers.extend(org_ids), and on to the next record
ExtractExtend ==
    /\ e_pc = "ids"
    /\ org_ids = <<>>
    /\ identifiers' =
           identifiers \cup collect_org_ids(unwrap(parse_xml(archive[e_next].doc)))
    /\ e_next' = e_next + 1
    /\ e_pc' = "next"
    /\ UNCHANGED <<org_ids, out>>
    /\ UNCHANGED extract_rest

\* the records are exhausted: Ok(())
ExtractEnd ==
    /\ e_pc = "next"
    /\ e_next > Len(archive)
    /\ e_pc' = "ok"
    /\ UNCHANGED <<e_next, identifiers, org_ids, out>>
    /\ UNCHANGED extract_rest

NextExtract ==
    \/ ExtractOpen
    \/ ExtractNextRecord
    \/ ExtractWrite
    \/ ExtractExtend
    \/ ExtractEnd

SpecExtract == InitExtract /\ [][NextExtract]_vars

\* the records iter_records yields, in archive order
ExtractRecords ==
    LET es == SelectSeq(archive,
                        LAMBDA e : e.xml /\ e.readable /\ is_some(parse_xml(e.doc)))
    IN  [i \in 1..Len(es) |-> es[i].doc.record]

\* the identifiers of a record's employments, in employment order
IdsInOrder(record) ==
    LET emps == IF is_some(record.activities.employments.employment)
                THEN unwrap(record.activities.employments.employment) ELSE <<>>
        with == SelectSeq(emps,
                          LAMBDA a : is_some(a.employment.organization.identifier))
    IN  [i \in 1..Len(with) |->
            ExtractedIdentifier(unwrap(with[i].employment.organization.identifier).source,
                                unwrap(with[i].employment.organization.identifier).identifier)]

\* a sequence without the repetitions of its elements
RECURSIVE FirstSeen(_, _)
FirstSeen(q, seen) ==
    IF q = <<>> THEN <<>>
    ELSE IF Head(q) \in seen THEN FirstSeen(Tail(q), seen)
    ELSE <<Head(q)>> \o FirstSeen(Tail(q), seen \cup {Head(q)})

\* every identifier of the archive, across records and across the employments
\* of a record
AllIdsInOrder == Flatten([i \in 1..Len(ExtractRecords) |-> IdsInOrder(ExtractRecords[i])])

\* the first record that holds the identifier
FirstRecordOf(id) ==
    CHOOSE i \in 1..Len(ExtractRecords) :
        /\ id \in collect_org_ids(ExtractRecords[i])
        /\ \A j \in 1..(i - 1) : id \notin collect_org_ids(ExtractRecords[j])

PositionIn(q, x) == CHOOSE i \in 1..Len(q) : q[i] = x

\* C16 as stated: no identifier is printed twice, and a run that ends Ok has
\* printed every distinct identifier of the decoded records, in the order of
\* first occurrence across records and across the employments of a record.
C16_FirstSeenOrder ==
    /\ \A i, j \in 1..Len(out) : out[i] = out[j] => i = j
    /\ e_pc = "ok" => out = FirstSeen(AllIdsInOrder, {})

\* C16 amended: no identifier is printed twice; a run that ends Ok has
\* printed every distinct identifier of the decoded records; an identifier
\* first met in an earlier record is printed before one first met in a later
\* record (the order among identifiers first met in the same record is the
\* set's iteration order).
C16_OncePerRecordOrder ==
    /\ \A i, j \in 1..Len(out) : out[i] = out[j] => i = j
    /\ e_pc \in {"next", "ok"} => RangeOf(out) = identifiers
    /\ e_pc = "ok" =>
           /\ RangeOf(out) = RangeOf(AllIdsInOrder)
           /\ \A a, b \in RangeOf(out) :
                  FirstRecordOf(a) < FirstRecordOf(b)
                      => PositionIn(out, a) < PositionIn(out, b)

\* two records, the second holding the identifiers of the first in another
\* order: each identifier is printed once
C16_Witness ==
    /\ e_pc = "ok"
    /\ Len(ExtractRecords) >= 2
    /\ Len(AllIdsInOrder) >= 4
    /\ Len(out) = 2
    /\ collect_org_ids(ExtractRecords[1]) = collect_org_ids(ExtractRecords[2])

----------------------------------------------------------------------------
\* convert_xml: one standalone document, next to a run of convert_tgz on an
\* archive that holds the same document as its only entry (SpecXml)

\* serde_json::to_writer_pretty: the same object as to_vec, indented
to_writer_pretty(nj) == [pretty |-> TRUE, value |-> serialize_name_json(nj)]

\* how the file operations of one call fare
XmlIo(readable, creatable, written) ==
    [readable |-> readable, creatable |-> creatable, written |-> written]
XmlIos == {XmlIo(r, c, w) : r, c, w \in BOOLEAN}

XmlResult(outcome, cause, written) ==
    [outcome |-> outcome, cause |-> cause, out |-> written]

\* convert_xml that passes over a document that does not parse, as the archive
\* path does
convert_xml_skips(xml, fmt, m, io, created_dt, uuid) ==
    IF ~io.readable THEN XmlResult("panic", "read", <<>>)
    ELSE IF is_none(parse_xml(xml)) THEN XmlResult("ok", "", <<>>)
    ELSE IF ~io.creatable THEN XmlResult("err", "create", <<>>)
    ELSE LET record == unwrap(parse_xml(xml))
         IN  IF fmt = "InvenioRDMNames"
             THEN LET row == record_to_row(record, m, created_dt, None, uuid)
                  IN  IF ~is_ok(row) THEN XmlResult("ok", "", <<>>)
                      ELSE IF io.written THEN XmlResult("ok", "", <<ok_val(row)>>)
                      ELSE XmlResult("ok", "write", <<>>)
             ELSE LET json == record_to_json(record, m)
                  IN  IF ~is_ok(json) THEN XmlResult("ok", "", <<>>)
                      ELSE IF io.written
                      THEN XmlResult("ok", "", <<to_writer_pretty(ok_val(json))>>)
                      ELSE XmlResult("err", "write", <<>>)

\* convert_xml: read_to_string(..).expect, deserialize(..)?, File::create(..)?,
\* then by format. The tabular arm hands the row to a csv::Writer, whose
\* buffer is flushed when it is dropped, a failure of the flush being
\* ignored; the JSON arm writes to the file itself.
convert_xml(xml, fmt, m, io, created_dt, uuid) ==
    IF ~io.readable THEN XmlResult("panic", "read", <<>>)
    ELSE IF is_none(parse_xml(xml)) THEN XmlResult("err", "parse", <<>>)
    ELSE IF ~io.creatable THEN XmlResult("err", "create", <<>>)
    ELSE LET record == unwrap(parse_xml(xml))
         IN  IF fmt = "InvenioRDMNames"
             THEN LET row == record_to_row(record, m, created_dt, None, uuid)
                  IN  IF ~is_ok(row) THEN XmlResult("panic", "convert", <<>>)
                      ELSE IF io.written THEN XmlResult("ok", "", <<ok_val(row)>>)
                      ELSE XmlResult("ok", "write", <<>>)
             ELSE LET json == record_to_json(record, m)
                  IN  IF ~is_ok(json) THEN XmlResult("panic", "convert", <<>>)
                      ELSE IF io.written
                      THEN XmlResult("ok", "", <<to_writer_pretty(ok_val(json))>>)
                      ELSE XmlResult("err", "write", <<>>)

\* the document convert_xml reads: that of the archive's only entry
XmlDocument == archive[1].doc

InitXml ==
    /\ n_pc = "idle" /\ n_record = AlexRecord /\ n_org_map = EmptyOrgMap /\ n_result = Err
    /\ archive \in {<<Entry(TRUE, TRUE, d)>> : d \in SampleDocs}
    /\ batch_size \in 1..MaxBatchSize
    /\ format \in Formats
    /\ filter_name \in FilterNames
    /\ org_map = OrgMapA
    /\ p_pc = "unspawned" /\ p_next = 1 /\ batch = <<>>
    /\ chan = <<>> /\ rx_alive = TRUE
    /\ m_pc = "start" /\ results = <<>> /\ now = 0
    /\ out = <<>> /\ out_batch = <<>> /\ pushed = <<>> /\ received = <<>>
    /\ flushed = 0
    /\ ExtractIdle
    /\ x_pc = "start" /\ x_cause = "" /\ x_out = <<>>

\* one call of convert_xml with the format and mapping file of the run
ConvertXml ==
    /\ x_pc = "start"
    /\ \E io \in XmlIos, created_dt \in Times :
           LET r == convert_xml(XmlDocument, format, org_map, io, created_dt, <<0, 1>>)
           IN  /\ x_pc' = r.outcome
               /\ x_cause' = r.cause
               /\ x_out' = r.out
    /\ UNCHANGED pipe_vars /\ UNCHANGED norm_vars /\ UNCHANGED extract_vars

NextXml == Next \/ ConvertXml

SpecXml == InitXml /\ [][NextXml]_vars

\* both paths have ended, no file operation failed in either, and the archive
\* path has no name filter in effect (convert_xml takes none)
BothPathsDone ==
    /\ m_pc = "ok" /\ flushed = Len(out)
    /\ x_pc \in {"ok", "err", "panic"} /\ x_cause \notin {"read", "create", "write"}
    /\ is_none(RunFilter)

\* the normalized records convert_xml emitted
XmlJsons ==
    [i \in 1..Len(x_out) |-> IF format = "JSON" THEN x_out[i].value ELSE x_out[i].json]

\* C18 as stated: convert_xml on a document is equivalent to convert_tgz on
\* an archive holding it as only entry: the same normalized record is
\* emitted in both paths, and a document the archive path skips yields no
\* record in the standalone path, with the same kind of outcome.
C18_XmlEquivalentToTgz ==
    BothPathsDone => /\ XmlJsons = OutJsons
                     /\ x_pc = "ok"

\* C18 amended: the same normalized record is emitted in both paths
\* (indented in the JSON format) for a document that decodes and normalizes;
\* a document the archive path skips yields no record in the standalone
\* path either, but there it ends the call: a document that does not decode
\* makes convert_xml return an error, one that does not normalize makes it
\* panic, while convert_tgz returns Ok.
C18_XmlSameRecordOrFails ==
    BothPathsDone =>
        /\ XmlJsons = OutJsons
        /\ Normalizes(XmlDocument) =>
               /\ x_pc = "ok" /\ Len(x_out) = 1
               /\ XmlJsons = <<JsonOfDoc(XmlDocument)>>
               /\ format = "JSON" => x_out[1].pretty
        /\ ~XmlDocument.valid => x_pc = "err" /\ x_cause = "parse"
        /\ (XmlDocument.valid /\ ~Normalizes(XmlDocument)) =>
               x_pc = "panic" /\ x_cause = "convert"

\* a document with an affiliation, emitted by both paths in the JSON format
C18_Witness ==
    /\ BothPathsDone
    /\ XmlDocument = DocA
    /\ format = "JSON"
    /\ x_pc = "ok" /\ Len(x_out) = 1 /\ Len(out) = 1

----------------------------------------------------------------------------
\* The producer after the receiver is gone (checked under Spec)

----------------------------------------------------------------------------
\* Termination (checked under FairSpec)

\* the steps of the producer thread and of the main thread
ProducerNext ==
    ProducerOpen \/ ProducerRead \/ ProducerSend \/ ProducerExhausted \/ ProducerSendRest
MainNext ==
    MainOpenOutputFails \/ MainSpawn \/ MainRecv \/ MainRecvEnd \/ MainWrite \/ MainJoin

\* the entries that differ in what the two threads do with them: a document
\* that is written, one that is dropped, an entry that cannot be read
FairEntries ==
    {Entry(TRUE, TRUE, DocC), Entry(TRUE, TRUE, DocBad), Entry(TRUE, FALSE, DocA)}

\* the runs of Init over these entries, in the JSON format without name
\* filter: every length of archive and every batch size
InitFair ==
    /\ Init
    /\ format = "JSON"
    /\ filter_name = None
    /\ \A i \in 1..Len(archive) : archive[i] \in FairEntries

\* both are operating-system threads: each one that can take a step
\* eventually takes it
FairSpec == InitFair /\ [][Next]_vars /\ WF_vars(ProducerNext) /\ WF_vars(MainNext)

Returned == m_pc \in {"ok", "err", "panic"}

\* C22: under fair scheduling of the producer and the main thread
\* convert_tgz eventually returns; the producer does not stay blocked in a
\* send forever and ends; once the producer has dropped its sender, by
\* returning or by panicking, the receive loop ends; and the join completes.
C22_Terminates ==
    /\ <>Returned
    /\ (p_pc = "send") ~> (p_pc # "send")
    /\ <>[](p_pc \in {"unspawned", "done", "panicked"})
    /\ (p_pc \in {"done", "panicked"}) ~> (m_pc \notin {"recv", "write"})
    /\ (m_pc = "join") ~> (m_pc \in {"ok", "panic"})

\* a run that returned Ok after more batches than the channel holds
C22_Witness ==
    /\ m_pc = "ok" /\ p_pc = "done"
    /\ Len(pushed) > QueueCapacity
    /\ received = pushed

----------------------------------------------------------------------------
\* Organizations without identifier or with an identifier of another scheme
\* (checked under SpecNorm)

\* the key under which the identifier of another scheme than ROR is looked
\* up: for FUNDREF the trailing segment (the whole value when it holds no
\* '/'), for every other scheme the raw value
LookupKey(oid) ==
    ExtractedIdentifier(oid.source,
                        IF oid.source = "FUNDREF" /\ HasSlash(oid.identifier)
                        THEN AfterLastSlash(oid.identifier)
                        ELSE oid.identifier)

\* what the affiliations hold for the k-th active employment: without
\* identifier, or with a key the OrgMap lacks, an entry with its display name
\* and no id; with a key the OrgMap holds, an entry with the mapped id
ResolvedAsKeyed(k) ==
    LET org == ActiveEmployments[k].employment.organization
        oid == org.identifier
    IN  IF is_some(oid) /\ unwrap(oid).source = "ROR" THEN TRUE
        ELSE IF is_some(oid) /\ LookupKey(unwrap(oid)) \in DOMAIN n_org_map
        THEN \E i \in 1..Len(NormAffiliations) :
                 NormAffiliations[i].id = Some(n_org_map[LookupKey(unwrap(oid))])
        ELSE \E i \in 1..Len(NormAffiliations) :
                 NormAffiliations[i] = [id |-> None, name |-> nfc(org.name)]

\* C23: for every active employment whose organization has no identifier or
\* a non-ROR identifier whose key the OrgMap lacks, the result holds an
\* affiliation with the display name and no canonical id; for a non-ROR
\* identifier whose key the OrgMap holds, the result holds an affiliation
\* whose canonical id is the mapped value.
C23_UnidentifiedOrMapped ==
    (NormDone /\ is_ok(n_result)) =>
        \A k \in 1..Len(ActiveEmployments) : ResolvedAsKeyed(k)

----------------------------------------------------------------------------
\* A name filter that does not compile (checked under Spec)

FilterDoesNotCompile == is_some(filter_name) /\ ~unwrap(filter_name).compiles

\* the normalized records of the documents of a batch that decode and
\* normalize, whatever their display name
NormalizedOfBatch(k) ==
    LET docs == SelectSeq(received[k], Normalizes)
    IN  [j \in 1..Len(docs) |-> JsonOfDoc(docs[j])]

\* C24: with a name filter pattern that does not compile the run goes on as
\* without filter: no filter is in effect, the pattern makes no step of the
\* run fail (a run that returned Err did so before the spawn, the output not
\* opened, or at a write after records had filled the stream's buffer), and
\* of every batch every record that decodes and normalizes is written,
\* whether or not its display name holds the pattern.
C24_BadFilterIgnored ==
    FilterDoesNotCompile =>
        /\ is_none(RunFilter)
        /\ (m_pc = "err" /\ p_pc # "unspawned") => Len(out) >= BufCapacity
        /\ \A k \in 1..Len(received) :
               BatchWritten(k) =>
                   [j \in 1..Len(OutOfBatch(k)) |-> JsonOfItem(OutOfBatch(k)[j])]
                       = NormalizedOfBatch(k)

\* a run that returned Ok and wrote a record whose display name does not
\* hold the text of the pattern
C24_Witness ==
    /\ FilterDoesNotCompile
    /\ m_pc = "ok"
    /\ \E i \in 1..Len(out) :
           ~is_match(unwrap(filter_name), NameOfJson(OutJsons[i]))
    /\ \E i \in 1..Len(out) :
           is_match(unwrap(filter_name), NameOfJson(OutJsons[i]))

====
